---- MODULE Spec2Model ----
(***************************************************************************)
(* Salary-manager: payroll computation and collection attribution.         *)
(*                                                                         *)
(* Strings the code normalises (account codes, designations) are held as   *)
(* sequences of one-character strings so that trim() and toLowerCase() are *)
(* computed.  A month "YYYY-MM" is the tuple <<Y, M>> and a date           *)
(* "YYYY-MM-DD" the tuple <<Y, M, D>> that split('-').map(Number) yields;  *)
(* the empty string is the empty tuple.  null is the empty tuple too where *)
(* the code only tests it for truthiness.                                  *)
(***************************************************************************)
EXTENDS Integers, Sequences, FiniteSets, TLC

VARIABLES
    dbEmployees,     \* EMPLOYEES sheet of the remote store
    dbCenters,       \* CENTERS sheet of the remote store
    employees,       \* App state: employees
    accounts,        \* App state: accounts
    centers,         \* App state: centers
    centerRecords,   \* App state: centerRecords
    selectedMonth,   \* App state: selectedMonth
    currentSheet,    \* App state: currentSheet (NoSheet = null)
    entries,         \* App state: entries
    isGenerated,     \* App state: isGenerated
    nextId,          \* number of ids generateId() has handed to salary sheets
    updates,         \* number of handleUpdateRow calls on the current sheet
    scanArgs,        \* arguments of the last validateAccount call
    validation,      \* SalaryTableRow.handleCodeBlur: result of the last validateAccount
    calcArgs,        \* arguments of the last recalculateEntry call made on its own
    calculated       \* entry that call returned

vars == <<dbEmployees, dbCenters, employees, accounts, centers, centerRecords,
          selectedMonth, currentSheet, entries, isGenerated, nextId, updates,
          scanArgs, validation, calcArgs, calculated>>

----------------------------------------------------------------------------
(* Bounds                                                                  *)

MaxSheets == 2
MaxCenters == 2
MaxUpdates == 2

----------------------------------------------------------------------------
(* String helpers                                                          *)

\* String.prototype.toLowerCase on one character
LowerChar(c) ==
    CASE c = "A" -> "a"
      [] c = "B" -> "b"
      [] c = "C" -> "c"
      [] c = "M" -> "m"
      [] OTHER -> c

\* String.prototype.toLowerCase
ToLower(s) == [i \in 1..Len(s) |-> LowerChar(s[i])]

RECURSIVE TrimLeft(_)
TrimLeft(s) == IF s # <<>> /\ Head(s) = " " THEN TrimLeft(Tail(s)) ELSE s

RECURSIVE TrimRight(_)
TrimRight(s) ==
    IF s # <<>> /\ s[Len(s)] = " " THEN TrimRight(SubSeq(s, 1, Len(s) - 1)) ELSE s

\* String.prototype.trim
Trim(s) == TrimRight(TrimLeft(s))

----------------------------------------------------------------------------
(* accountService.ts                                                       *)

\* NaN is held as a reserved integer no computation of the model produces
NaN == -999999
NoMonth == <<>>
NoSheetId == 0
NoSheet == [id |-> NoSheetId, month |-> NoMonth, branch_ids |-> {}]

\* const [y, m] = s.split('-').map(Number): Number('') is 0, a missing part is
\* undefined and every arithmetic on it yields NaN
PartY(s) == IF Len(s) = 0 THEN 0 ELSE s[1]
PartM(s) == IF Len(s) < 2 THEN NaN ELSE s[2]

\* slip: the year of the two months is ignored
MonthDiff_NoYear(opening_date, sheetMonth) ==
    IF PartM(opening_date) = NaN \/ PartM(sheetMonth) = NaN
    THEN NaN
    ELSE PartM(sheetMonth) - PartM(opening_date)

MonthDiff(opening_date, sheetMonth) ==
    IF PartM(opening_date) = NaN \/ PartM(sheetMonth) = NaN
    THEN NaN
    ELSE (PartY(sheetMonth) - PartY(opening_date)) * 12
         + (PartM(sheetMonth) - PartM(opening_date))

\* a comparison with NaN is false
NumLess(a, b) == a # NaN /\ b # NaN /\ a < b

\* allAccounts.find(a => a.account_code.toLowerCase() === normalizedCode):
\* index of the first match, 0 when there is none
FindAccount(normalizedCode, allAccounts) ==
    LET hits == {i \in 1..Len(allAccounts) :
                    ToLower(allAccounts[i].account_code) = normalizedCode}
    IN  IF hits = {} THEN 0 ELSE CHOOSE i \in hits : \A j \in hits : i <= j

ErrNotFound == <<"Account not found">>
ErrOwner == <<"Belongs to another employee">>
ErrBranch == <<"Branch mismatch">>
ErrDuplicate == <<"Already scanned in this sheet">>
ErrUsed(m) == <<"Used in", IF m = NoMonth THEN <<"past">> ELSE m>>
ErrFloor == <<"Not Eligible: Collection < 600">>
ErrOrder == <<"Error: Account opened after sheet month">>
ErrExpired == <<"Expired: 2-month bonus window passed">>
NoError == <<>>

Reject(e) == [ok |-> FALSE, error |-> e, account |-> 0]

BonusFloor == 600
BonusWindow == 2

WindowCheck(ac, sheetMonth, idx) ==
    LET monthDiff == MonthDiff(ac.opening_date, sheetMonth)
    IN  IF NumLess(monthDiff, 0) THEN Reject(ErrOrder)
        ELSE IF NumLess(BonusWindow, monthDiff) THEN Reject(ErrExpired)
        ELSE [ok |-> TRUE, error |-> NoError, account |-> idx]

\* slip: exclusive floor
FloorCheck_Exclusive(ac, sheetMonth, idx) ==
    IF ac.collection_amount <= BonusFloor THEN Reject(ErrFloor)
    ELSE WindowCheck(ac, sheetMonth, idx)

FloorCheck(ac, sheetMonth, idx) ==
    IF ac.collection_amount < BonusFloor THEN Reject(ErrFloor)
    ELSE WindowCheck(ac, sheetMonth, idx)

CountedCheck(ac, sheetMonth, idx) ==
    IF ac.is_counted
    THEN IF ac.counted_month = sheetMonth THEN Reject(ErrDuplicate)
         ELSE Reject(ErrUsed(ac.counted_month))
    ELSE FloorCheck(ac, sheetMonth, idx)

\* slip: the already-counted check runs before the ownership and branch checks
validateAccount_CountedFirst(code, employeeId, branchId, sheetMonth, allAccounts) ==
    LET normalizedCode == ToLower(Trim(code))
        idx == FindAccount(normalizedCode, allAccounts)
    IN  IF idx = 0 THEN Reject(ErrNotFound)
        ELSE LET ac == allAccounts[idx]
             IN  IF ac.is_counted THEN CountedCheck(ac, sheetMonth, idx)
                 ELSE IF ac.opened_by_employee_id # employeeId THEN Reject(ErrOwner)
                 ELSE IF ac.branch_id # branchId THEN Reject(ErrBranch)
                 ELSE CountedCheck(ac, sheetMonth, idx)

\* validateAccount: account is the index of the account found (0 = none)
validateAccount(code, employeeId, branchId, sheetMonth, allAccounts) ==
    LET normalizedCode == ToLower(Trim(code))
        idx == FindAccount(normalizedCode, allAccounts)
    IN  IF idx = 0 THEN Reject(ErrNotFound)
        ELSE LET ac == allAccounts[idx]
             IN  IF ac.opened_by_employee_id # employeeId THEN Reject(ErrOwner)
                 ELSE IF ac.branch_id # branchId THEN Reject(ErrBranch)
                 ELSE CountedCheck(ac, sheetMonth, idx)

----------------------------------------------------------------------------
(* Data universe                                                           *)

EmployeeIds == {"e1", "e2"}
BranchIds == {"b1", "b2"}

Account(code, term, amount, branch, emp, date, counted, cmonth, sheet) ==
    [account_code |-> code, term |-> term, collection_amount |-> amount,
     branch_id |-> branch, opened_by_employee_id |-> emp, opening_date |-> date,
     is_counted |-> counted, counted_month |-> cmonth, salary_sheet_id |-> sheet]

NoArgs == [code |-> <<>>, employeeId |-> "", branchId |-> "", sheetMonth |-> NoMonth]
Idle == [ok |-> FALSE, error |-> NoError, account |-> 0]

----------------------------------------------------------------------------
(* logic.ts: the entry calculator                                          *)
(*                                                                         *)
(* The fractional results (commission, the two computed deductions,        *)
(* total_deductions, manager_convenience, final_salary) are exact          *)
(* rationals held as integers in units of 1/Scale; Scale = 5200 is the     *)
(* least number divisible by 100 (percentages) and by 26*8 (hourly rate).  *)
(* Book terms are held in half-years (1.5 years = 3).                      *)

Scale == 5200
BONUS_TARGET_BOOKS == 50
TARGET_BONUS_AMOUNT == 500
NoType == ""

\* DEFAULT_COMMISSION_RATES
commissionRates ==
    [t \in {"A", "B", "C"} |->
        CASE t = "A" -> [own |-> 8, office |-> 4]
          [] t = "B" -> [own |-> 10, office |-> 6]
          [] t = "C" -> [own |-> 8, office |-> 6]]

\* services/bonusRates: flat amount per book of a recognised term (0 = no entry)
bonusRates(term) ==
    CASE term = 3 -> 10
      [] term = 6 -> 20
      [] term = 10 -> 50
      [] term = 16 -> 80
      [] term = 20 -> 100
      [] term = 24 -> 120
      [] OTHER -> 0

createEmptyEntry(sheetId, employeeId, baseSalary, commissionType) ==
    [id |-> <<sheetId, employeeId>>,
     salary_sheet_id |-> sheetId,
     employee_id |-> employeeId,
     basic_salary |-> baseSalary,
     commission_type |-> commissionType,
     own_somity_count |-> 0,
     own_somity_collection |-> 0,
     office_somity_count |-> 0,
     office_somity_collection |-> 0,
     center_count |-> 0,
     center_collection |-> 0,
     total_loan_collection |-> 0,
     book_1_5 |-> 0,
     book_3 |-> 0,
     book_5 |-> 0,
     book_8 |-> 0,
     book_10 |-> 0,
     book_12 |-> 0,
     book_no_bonus |-> 0,
     input_late_hours |-> 0,
     input_absent_days |-> 0,
     deduction_cash_advance |-> 0,
     deduction_late |-> 0,
     deduction_abs |-> 0,
     misconductDeduction |-> 0,
     deduction_unlawful |-> 0,
     deduction_tours |-> 0,
     deduction_others |-> 0,
     manager_convenience |-> 0,
     total_books |-> 0,
     total_collection |-> 0,
     total_deductions |-> 0,
     commission |-> 0,
     bonus |-> 0,
     final_salary |-> baseSalary * Scale]

\* managerContext: NoContext when the argument is omitted
NoContext == [given |-> FALSE, isManager |-> FALSE, branchTotalCollection |-> 0]
Context(isManager, branchTotal) ==
    [given |-> TRUE, isManager |-> isManager, branchTotalCollection |-> branchTotal]

\* JavaScript arithmetic on a number that may be NaN or undefined
IsNaN(x) == x = NaN
Plus(a, b) == IF IsNaN(a) \/ IsNaN(b) THEN NaN ELSE a + b
Minus(a, b) == IF IsNaN(a) \/ IsNaN(b) THEN NaN ELSE a - b
Times(a, b) == IF IsNaN(a) \/ IsNaN(b) THEN NaN ELSE a * b
\* x || 0
OrZero(x) == IF IsNaN(x) THEN 0 ELSE x
\* Math.max
Max(a, b) == IF IsNaN(a) \/ IsNaN(b) THEN NaN ELSE IF a >= b THEN a ELSE b

\* slip: the type of the entry wins over the override
EffectiveType_EntryFirst(override, entry) ==
    IF entry.commission_type # NoType THEN entry.commission_type
    ELSE IF override # NoType THEN override
    ELSE "A"

\* commissionTypeOverride || entry.commission_type || 'A'
EffectiveType(override, entry) ==
    IF override # NoType THEN override
    ELSE IF entry.commission_type # NoType THEN entry.commission_type
    ELSE "A"

\* slip: an unknown type is paid at the rates of type A
RateStruct_DefaultA(ratesMap, commissionType) ==
    IF commissionType \in DOMAIN ratesMap THEN ratesMap[commissionType]
    ELSE ratesMap["A"]

\* ratesMap[commissionType] || { own: 0, office: 0 }
RateStruct(ratesMap, commissionType) ==
    IF commissionType \in DOMAIN ratesMap THEN ratesMap[commissionType]
    ELSE [own |-> 0, office |-> 0]

\* slip: the no-bonus bucket is left out of the total
TotalBooks_RecognisedOnly(entry) ==
    Plus(Plus(Plus(Plus(Plus(entry.book_1_5, entry.book_3), entry.book_5),
                   entry.book_8), entry.book_10), entry.book_12)

\* step 1 of recalculateEntry: the seven book counts, none of them guarded
TotalBooks(entry) ==
    Plus(Plus(Plus(Plus(Plus(Plus(entry.book_1_5, entry.book_3), entry.book_5),
                        entry.book_8), entry.book_10), entry.book_12),
         entry.book_no_bonus)

\* slip: the manual center collection is left out of the total
TotalCollection_SomityOnly(entry) ==
    OrZero(entry.own_somity_collection) + OrZero(entry.office_somity_collection)

TotalCollection(entry) ==
    OrZero(entry.own_somity_collection) + OrZero(entry.office_somity_collection)
    + OrZero(entry.center_collection)

\* slip: the manual center collection earns the own rate
CollectionCommission_WithCenter(entry, rateStruct) ==
    (OrZero(entry.own_somity_collection) + OrZero(entry.center_collection))
        * rateStruct.own * (Scale \div 100)
    + OrZero(entry.office_somity_collection) * rateStruct.office * (Scale \div 100)

\* step 2, in units of 1/Scale
CollectionCommission(entry, rateStruct) ==
    OrZero(entry.own_somity_collection) * rateStruct.own * (Scale \div 100)
    + OrZero(entry.office_somity_collection) * rateStruct.office * (Scale \div 100)

BookCommission(entry) ==
    Times(Plus(Plus(Plus(Plus(Plus(Times(entry.book_1_5, bonusRates(3)),
                                   Times(entry.book_3, bonusRates(6))),
                              Times(entry.book_5, bonusRates(10))),
                         Times(entry.book_8, bonusRates(16))),
                    Times(entry.book_10, bonusRates(20))),
               Times(entry.book_12, bonusRates(24))),
          Scale)

\* slip: the target itself earns nothing
Bonus_AboveTarget(total_books) ==
    IF ~IsNaN(total_books) /\ total_books > BONUS_TARGET_BOOKS
    THEN TARGET_BONUS_AMOUNT ELSE 0

\* step 3: NaN >= 50 is false
Bonus(total_books) ==
    IF ~IsNaN(total_books) /\ total_books >= BONUS_TARGET_BOOKS
    THEN TARGET_BONUS_AMOUNT ELSE 0

\* step 4, in units of 1/Scale
\* slip: the rate follows the editable basic_salary of the entry
DailyRate_OnBasic(entry, contractualBaseSalary) ==
    Times(OrZero(entry.basic_salary), Scale \div 26)

DailyRate(entry, contractualBaseSalary) == Times(contractualBaseSalary, Scale \div 26)

\* dailyRate / 8
HourlyRate(entry, contractualBaseSalary) ==
    LET dailyRate == DailyRate(entry, contractualBaseSalary)
    IN  IF IsNaN(dailyRate) THEN NaN ELSE dailyRate \div 8

\* slip: the tours deduction is left out
TotalDeductions_NoTours(entry, deduction_late, deduction_abs) ==
    Plus(Plus(Plus(Plus(Plus(Times(entry.deduction_cash_advance, Scale), deduction_late),
                        deduction_abs),
                   OrZero(entry.misconductDeduction) * Scale),
              Times(entry.deduction_unlawful, Scale)),
         Times(entry.deduction_others, Scale))

TotalDeductions(entry, deduction_late, deduction_abs) ==
    Plus(Plus(Plus(Plus(Plus(Plus(Times(entry.deduction_cash_advance, Scale),
                                  deduction_late),
                             deduction_abs),
                        OrZero(entry.misconductDeduction) * Scale),
                   Times(entry.deduction_unlawful, Scale)),
              Times(entry.deduction_tours, Scale)),
         Times(entry.deduction_others, Scale))

\* slip: the difference is not floored at 0
ManagerConvenience_NoFloor(entry, managerContext) ==
    IF managerContext.given
    THEN IF managerContext.isManager
         THEN Times(Minus(managerContext.branchTotalCollection,
                          OrZero(entry.own_somity_collection)
                          + OrZero(entry.office_somity_collection)
                          + OrZero(entry.total_loan_collection)
                          + OrZero(entry.center_collection)),
                    (2 * Scale) \div 100)
         ELSE 0
    ELSE OrZero(entry.manager_convenience)

\* step 5, in units of 1/Scale
ManagerConvenience(entry, managerContext) ==
    IF managerContext.given
    THEN IF managerContext.isManager
         THEN LET managerOwnCollection ==
                      OrZero(entry.own_somity_collection)
                      + OrZero(entry.office_somity_collection)
                      + OrZero(entry.total_loan_collection)
                      + OrZero(entry.center_collection)
                  diff == Minus(managerContext.branchTotalCollection, managerOwnCollection)
              IN  Max(0, Times(diff, (2 * Scale) \div 100))
         ELSE 0
    ELSE OrZero(entry.manager_convenience)

\* slip: the salary is built on the stored final_salary
FinalSalary_OnStored(entry, commission, bonus, manager_convenience, total_deductions) ==
    Minus(Plus(Plus(Plus(OrZero(entry.final_salary), commission), bonus * Scale),
               manager_convenience),
          total_deductions)

\* step 6, in units of 1/Scale
FinalSalary(entry, commission, bonus, manager_convenience, total_deductions) ==
    Minus(Plus(Plus(Plus(OrZero(entry.basic_salary) * Scale, commission), bonus * Scale),
               manager_convenience),
          total_deductions)

recalculateEntry(entry, contractualBaseSalary, ratesMap, commissionTypeOverride, managerContext) ==
    LET commissionType == EffectiveType(commissionTypeOverride, entry)
        total_books == TotalBooks(entry)
        total_collection == TotalCollection(entry)
        rateStruct == RateStruct(ratesMap, commissionType)
        commission == Plus(CollectionCommission(entry, rateStruct), BookCommission(entry))
        bonus == Bonus(total_books)
        deduction_late == Times(OrZero(entry.input_late_hours),
                                HourlyRate(entry, contractualBaseSalary))
        deduction_abs == Times(OrZero(entry.input_absent_days),
                               DailyRate(entry, contractualBaseSalary))
        total_deductions == TotalDeductions(entry, deduction_late, deduction_abs)
        manager_convenience == ManagerConvenience(entry, managerContext)
        final_salary == FinalSalary(entry, commission, bonus, manager_convenience,
                                    total_deductions)
    IN  [entry EXCEPT !.commission_type = commissionType,
                      !.deduction_late = deduction_late,
                      !.deduction_abs = deduction_abs,
                      !.total_books = total_books,
                      !.total_collection = total_collection,
                      !.total_deductions = total_deductions,
                      !.manager_convenience = manager_convenience,
                      !.commission = commission,
                      !.bonus = bonus,
                      !.final_salary = final_salary]

\* no recalculateEntry call made on its own yet
NoEntry == createEmptyEntry(NoSheetId, "", 0, NoType)
NoCall == [calls |-> 0, entry |-> NoEntry, contractualBaseSalary |-> 0,
           commissionTypeOverride |-> NoType, managerContext |-> NoContext]

----------------------------------------------------------------------------
(* googleSheetService: the remote store and its mappers                    *)

BranchManager == <<"B", "r", "a", "n", "c", "h", " ", "M", "a", "n", "a", "g", "e", "r">>
Staff == <<"S", "t", "a", "f", "f">>
Designations == {BranchManager, Staff}

Employee(id, branch, designation, base, type) ==
    [id |-> id, branch_id |-> branch, designation |-> designation,
     base_salary |-> base, commission_type |-> type]

\* EMPLOYEES sheet when the session starts
DbEmployees0 ==
    <<Employee("e1", "b1", BranchManager, 5200, "A"),
      Employee("e2", "b1", Staff, 2600, "B")>>

\* ACCOUNTS sheet: the sheet has no column for is_counted, counted_month or
\* salary_sheet_id (addAccount writes ten columns)
DbAccounts ==
    <<[account_code |-> <<"A", "1">>, term |-> 10, collection_amount |-> 600,
       branch_id |-> "b1", opened_by_employee_id |-> "e1", opening_date |-> <<2024, 1, 15>>],
      [account_code |-> <<"b", "2">>, term |-> 7, collection_amount |-> 600,
       branch_id |-> "b1", opened_by_employee_id |-> "e2", opening_date |-> <<2023, 11, 20>>],
      [account_code |-> <<"c", "3">>, term |-> 6, collection_amount |-> 599,
       branch_id |-> "b1", opened_by_employee_id |-> "e1", opening_date |-> <<2024, 1, 3>>]>>

\* COLLECTIONS sheet: one row per saving or loan instalment; typeStr is column J.
\* CenterCalculation offers every employee under every branch, so e1 of branch b1
\* has a row collected at branch b2.
DbCollections ==
    <<[createdAt |-> <<2024, 1, 5>>, branchId |-> "b1", centerCode |-> 1, employeeId |-> "e1",
       amount |-> 100, loanAmount |-> 0, typeStr |-> "Savings"],
      [createdAt |-> <<2024, 1, 6>>, branchId |-> "b1", centerCode |-> 1, employeeId |-> "e2",
       amount |-> 50, loanAmount |-> 0, typeStr |-> "Savings"],
      [createdAt |-> <<2024, 1, 6>>, branchId |-> "b1", centerCode |-> 1, employeeId |-> "e1",
       amount |-> 0, loanAmount |-> 40, typeStr |-> "Loan"],
      [createdAt |-> <<2024, 1, 7>>, branchId |-> "b1", centerCode |-> 3, employeeId |-> "e2",
       amount |-> 70, loanAmount |-> 0, typeStr |-> "Savings"],
      [createdAt |-> <<2024, 1, 8>>, branchId |-> "b1", centerCode |-> 4, employeeId |-> "e2",
       amount |-> 30, loanAmount |-> 0, typeStr |-> "OWN"],
      [createdAt |-> <<2024, 1, 8>>, branchId |-> "b1", centerCode |-> 4, employeeId |-> "e2",
       amount |-> 30, loanAmount |-> 0, typeStr |-> "OFFICE"],
      [createdAt |-> <<2024, 2, 2>>, branchId |-> "b1", centerCode |-> 1, employeeId |-> "e1",
       amount |-> 25, loanAmount |-> 0, typeStr |-> "Savings"],
      [createdAt |-> <<2024, 2, 3>>, branchId |-> "b1", centerCode |-> 1, employeeId |-> "e2",
       amount |-> 60, loanAmount |-> 0, typeStr |-> "Savings"],
      [createdAt |-> <<2024, 2, 4>>, branchId |-> "b2", centerCode |-> 1, employeeId |-> "e1",
       amount |-> 20, loanAmount |-> 0, typeStr |-> "Savings"]>>

Center(id, code, branch, emp, type) ==
    [id |-> id, centerCode |-> code, branchId |-> branch, assignedEmployeeId |-> emp,
     type |-> type]

\* CENTERS sheet when the session starts
DbCenters0 == <<Center(1, 1, "b1", "e1", "OWN")>>

\* getEmployees: designation defaults to 'Staff'
getEmployees(rows) ==
    [i \in 1..Len(rows) |->
        [rows[i] EXCEPT !.designation = IF rows[i].designation = <<>> THEN Staff
                                         ELSE rows[i].designation]]

\* getAccounts: every account comes back uncounted
getAccounts(rows) ==
    [i \in 1..Len(rows) |->
        Account(rows[i].account_code, rows[i].term, rows[i].collection_amount,
                rows[i].branch_id, rows[i].opened_by_employee_id, rows[i].opening_date,
                FALSE, NoMonth, NoSheetId)]

\* slip: the type column of the sheet is read back
getCollections_StoredType(rows) ==
    [i \in 1..Len(rows) |->
        [createdAt |-> rows[i].createdAt, branchId |-> rows[i].branchId,
         centerCode |-> rows[i].centerCode, employeeId |-> rows[i].employeeId,
         amount |-> rows[i].amount, loanAmount |-> rows[i].loanAmount,
         type |-> IF rows[i].typeStr = "OWN" THEN "OWN" ELSE "OFFICE"]]

\* getCollections: the type is recomputed from the parity of the center code
CollectionType(centerCode) == IF centerCode % 2 # 0 THEN "OWN" ELSE "OFFICE"

getCollections(rows) ==
    [i \in 1..Len(rows) |->
        [createdAt |-> rows[i].createdAt, branchId |-> rows[i].branchId,
         centerCode |-> rows[i].centerCode, employeeId |-> rows[i].employeeId,
         amount |-> rows[i].amount, loanAmount |-> rows[i].loanAmount,
         type |-> CollectionType(rows[i].centerCode)]]

getCenters(rows) == rows

----------------------------------------------------------------------------
(* App.tsx: gridRows                                                       *)

\* String.prototype.startsWith
StartsWith(str, prefix) ==
    Len(prefix) <= Len(str) /\ SubSeq(str, 1, Len(prefix)) = prefix

RECURSIVE SumAmount(_)
SumAmount(rs) == IF rs = <<>> THEN 0 ELSE Head(rs).amount + SumAmount(Tail(rs))

RECURSIVE SumLoan(_)
SumLoan(rs) == IF rs = <<>> THEN 0 ELSE Head(rs).loanAmount + SumLoan(Tail(rs))

RECURSIVE SumCenterCollection(_, _, _)
SumCenterCollection(es, emps, branchId) ==
    IF es = <<>> THEN 0
    ELSE (IF \E i \in 1..Len(emps) :
                emps[i].id = Head(es).employee_id /\ emps[i].branch_id = branchId
          THEN Head(es).center_collection ELSE 0)
         + SumCenterCollection(Tail(es), emps, branchId)

InMonth(r, month) == StartsWith(r.createdAt, month)

\* slip: the collections typed on the sheet are left out
BranchTotal_RecordsOnly(branchId, records, month, es, emps) ==
    SumAmount(SelectSeq(records, LAMBDA r : InMonth(r, month) /\ r.branchId = branchId))
    + SumLoan(SelectSeq(records, LAMBDA r : InMonth(r, month) /\ r.branchId = branchId))

\* branchTotals[branchId] || 0
BranchTotal(branchId, records, month, es, emps) ==
    SumAmount(SelectSeq(records, LAMBDA r : InMonth(r, month) /\ r.branchId = branchId))
    + SumLoan(SelectSeq(records, LAMBDA r : InMonth(r, month) /\ r.branchId = branchId))
    + SumCenterCollection(es, emps, branchId)

\* centerMap.get(`${branchId}-${centerCode}`): Map.set keeps the last center of a key
CenterMapGet(centerList, branchId, centerCode) ==
    LET hits == {i \in 1..Len(centerList) :
                    centerList[i].branchId = branchId /\ centerList[i].centerCode = centerCode}
    IN  IF hits = {} THEN 0 ELSE CHOOSE i \in hits : \A j \in hits : j <= i

\* slip: an explicit OFFICE type does not override the assignment
IsOwn_NoOverride(r, employee_id, centerList) ==
    LET c == CenterMapGet(centerList, r.branchId, r.centerCode)
    IN  IF c # 0 THEN centerList[c].assignedEmployeeId = employee_id
        ELSE r.type = "OWN"

\* slip: the classification stored on the record is trusted
IsOwn_StoredType(r, employee_id, centerList) == r.type = "OWN"

\* DYNAMIC OWNERSHIP LOGIC of gridRows
IsOwn(r, employee_id, centerList) ==
    LET c == CenterMapGet(centerList, r.branchId, r.centerCode)
    IN  IF c # 0
        THEN IF centerList[c].type = "OFFICE" THEN FALSE
             ELSE centerList[c].assignedEmployeeId = employee_id
        ELSE r.type = "OWN"

\* CenterCalculation.getCenterType
getCenterType(code, branchId, collectingEmpId, centerList, isNewCenter, newCenterType) ==
    LET hits == {i \in 1..Len(centerList) :
                    centerList[i].centerCode = code /\ centerList[i].branchId = branchId}
    IN  IF hits # {}
        THEN LET configuredCenter == centerList[CHOOSE i \in hits : \A j \in hits : i <= j]
             IN  IF configuredCenter.type = "OFFICE" THEN "OFFICE"
                 ELSE IF configuredCenter.assignedEmployeeId = collectingEmpId THEN "OWN"
                 ELSE "OFFICE"
        ELSE IF isNewCenter THEN newCenterType
        ELSE IF code % 2 # 0 THEN "OWN" ELSE "OFFICE"

\* slip: the records of every month are taken
currentMonthRecords_AllMonths(employee_id, records, month) ==
    SelectSeq(records, LAMBDA r : r.employeeId = employee_id)

currentMonthRecords(employee_id, records, month) ==
    SelectSeq(records, LAMBDA r : r.employeeId = employee_id /\ InMonth(r, month))

ownRecords(employee_id, records, month, centerList) ==
    SelectSeq(currentMonthRecords(employee_id, records, month),
              LAMBDA r : IsOwn(r, employee_id, centerList))

offRecords(employee_id, records, month, centerList) ==
    SelectSeq(currentMonthRecords(employee_id, records, month),
              LAMBDA r : ~IsOwn(r, employee_id, centerList))

\* slip: one per record
CodesOf_PerRecord(rs) == {<<i, rs[i].centerCode>> : i \in 1..Len(rs)}

CodesOf(rs) == {rs[i].centerCode : i \in 1..Len(rs)}

\* employee.designation.trim().toLowerCase() === 'branch manager' || ... 'branch_manager'
isBranchManager(employee) ==
    \/ ToLower(Trim(employee.designation)) = ToLower(BranchManager)
    \/ ToLower(Trim(employee.designation))
          = <<"b", "r", "a", "n", "c", "h", "_", "m", "a", "n", "a", "g", "e", "r">>

\* employees.find(e => e.id === entry.employee_id): index, 0 when there is none
FindEmployee(emps, id) ==
    LET hits == {i \in 1..Len(emps) : emps[i].id = id}
    IN  IF hits = {} THEN 0 ELSE CHOOSE i \in hits : \A j \in hits : i <= j

\* entry.commission_type || employee.commission_type || 'A'
TypeFor(entry, employee) ==
    IF entry.commission_type # NoType THEN entry.commission_type
    ELSE IF employee.commission_type # NoType THEN employee.commission_type
    ELSE "A"

\* the row gridRows computes for one stored entry whose employee exists
GridRow(entry, emps, records, month, centerList, es) ==
    LET employee == emps[FindEmployee(emps, entry.employee_id)]
        own == ownRecords(entry.employee_id, records, month, centerList)
        off == offRecords(entry.employee_id, records, month, centerList)
        aggregated ==
            [entry EXCEPT !.own_somity_collection = SumAmount(own),
                          !.own_somity_count = Cardinality(CodesOf(own)),
                          !.office_somity_collection = SumAmount(off),
                          !.office_somity_count = Cardinality(CodesOf(off)),
                          !.total_loan_collection =
                              SumLoan(currentMonthRecords(entry.employee_id, records, month))]
    IN  recalculateEntry(aggregated, employee.base_salary, commissionRates,
                         TypeFor(entry, employee),
                         Context(isBranchManager(employee),
                                 BranchTotal(employee.branch_id, records, month, es, emps)))

\* gridRows, entry by entry (an entry whose employee is gone has no row)
HasRow(i) == i \in 1..Len(entries) /\ FindEmployee(employees, entries[i].employee_id) # 0

gridRows(i) == GridRow(entries[i], employees, centerRecords, selectedMonth, centers, entries)

RowEmployee(i) == employees[FindEmployee(employees, entries[i].employee_id)]

----------------------------------------------------------------------------
(* App.tsx, SalaryTable, ManageCenters: state and handlers                 *)

Months == {<<2023, 12>>, <<2024, 1>>, <<2024, 2>>}
ScanCodes == {<<"a", "1">>, <<" ", "B", "2">>, <<"c", "3">>, <<"z", "9">>}
PayCodes == {<<"a", "1">>, <<" ", "B", "2">>}
CenterCodes == {1, 3}
CenterTypes == {"OWN", "OFFICE"}

\* the inputs of a row the model types into, and the values typed
NumberFields == {"basic_salary", "deduction_cash_advance"}
\* what parseFloat makes of the text typed: a number, or NaN for text that has none
InputValues(field) ==
    CASE field = "commission_type" -> {"Z"}
      [] field = "basic_salary" -> {4000}
      [] OTHER -> {2, NaN}
CenterAmounts == {200}

Init ==
    /\ dbEmployees = DbEmployees0
    /\ dbCenters = DbCenters0
    /\ employees = <<>>
    /\ accounts = <<>>
    /\ centers = <<>>
    /\ centerRecords = <<>>
    /\ selectedMonth = <<2024, 1>>
    /\ currentSheet = NoSheet
    /\ entries = <<>>
    /\ isGenerated = FALSE
    /\ nextId = 0
    /\ updates = 0
    /\ scanArgs = NoArgs
    /\ validation = Idle
    /\ calcArgs = NoCall
    /\ calculated = NoEntry

\* the four setters of loadAllData the model keeps
Loaded(dbE, dbC) ==
    /\ employees' = getEmployees(dbE)
    /\ accounts' = getAccounts(DbAccounts)
    /\ centers' = getCenters(dbC)
    /\ centerRecords' = getCollections(DbCollections)

loadAllData ==
    /\ Loaded(dbEmployees, dbCenters)
    /\ UNCHANGED <<calcArgs, calculated, dbEmployees, dbCenters, selectedMonth,
                   currentSheet, entries, isGenerated, nextId, updates, scanArgs,
                   validation>>

handleGenerate(targetBranches) ==
    /\ targetBranches # {}
    /\ nextId < MaxSheets
    /\ LET newSheet == [id |-> nextId + 1, month |-> selectedMonth,
                        branch_ids |-> targetBranches]
           targetEmployees ==
               SelectSeq(employees, LAMBDA e : e.branch_id \in targetBranches)
       IN  /\ currentSheet' = newSheet
           /\ entries' =
                 [i \in 1..Len(targetEmployees) |->
                     recalculateEntry(
                         createEmptyEntry(newSheet.id, targetEmployees[i].id,
                                          targetEmployees[i].base_salary,
                                          targetEmployees[i].commission_type),
                         targetEmployees[i].base_salary, commissionRates, NoType,
                         NoContext)]
    /\ isGenerated' = TRUE
    /\ nextId' = nextId + 1
    /\ updates' = 0
    /\ UNCHANGED <<calcArgs, calculated, dbEmployees, dbCenters, employees, accounts,
                   centers, centerRecords, selectedMonth, scanArgs, validation>>

setSelectedMonth(m) ==
    /\ m # selectedMonth
    /\ selectedMonth' = m
    /\ UNCHANGED <<calcArgs, calculated, dbEmployees, dbCenters, employees, accounts,
                   centers, centerRecords, currentSheet, entries, isGenerated, nextId,
                   updates, scanArgs, validation>>

\* setEntries(prev => prev.map(e => e.id === updatedEntry.id ? updatedEntry : e))
handleUpdateRow(es, updatedEntry) ==
    [k \in 1..Len(es) |-> IF es[k].id = updatedEntry.id THEN updatedEntry ELSE es[k]]

handleAccountScanned(accs, code, month, sheet) ==
    LET normalizedCode == ToLower(Trim(code))
    IN  [k \in 1..Len(accs) |->
            IF ToLower(accs[k].account_code) = normalizedCode
            THEN [accs[k] EXCEPT !.is_counted = TRUE,
                                 !.counted_month = month,
                                 !.salary_sheet_id = sheet.id]
            ELSE accs[k]]

\* salaryCalculation.calculateBonus
calculateBonus(term, collection) ==
    IF collection < 600 THEN 0 ELSE bonusRates(term)

\* the switch of handleCodeBlur
BookField_NoBonusOnly(term, bonusAmount) == "book_no_bonus"

BookField(term, bonusAmount) ==
    IF bonusAmount > 0
    THEN CASE term = 3 -> "book_1_5"
           [] term = 6 -> "book_3"
           [] term = 10 -> "book_5"
           [] term = 16 -> "book_8"
           [] term = 20 -> "book_10"
           [] term = 24 -> "book_12"
           [] OTHER -> "book_no_bonus"
    ELSE "book_no_bonus"

\* the row of gridRows for stored entry i of es, and its employee
RowOf(es, i) == GridRow(es[i], employees, centerRecords, selectedMonth, centers, es)
EmployeeOf(es, i) == employees[FindEmployee(employees, es[i].employee_id)]

\* handleCodeBlur after validateAccount accepted account ac: the entries it stores
Scanned(es, i, ac) ==
    LET row == RowOf(es, i)
        employee == EmployeeOf(es, i)
        field == BookField(ac.term, calculateBonus(ac.term, ac.collection_amount))
        updatedEntry == [row EXCEPT ![field] = Plus(@, 1)]
    IN  handleUpdateRow(es,
            recalculateEntry(updatedEntry, employee.base_salary, commissionRates,
                             TypeFor(row, employee), NoContext))

handleCodeBlur(i, code) ==
    /\ isGenerated
    /\ HasRow(i)
    /\ Trim(code) # <<>>
    /\ LET employee == RowEmployee(i)
           v == validateAccount(code, employee.id, employee.branch_id, selectedMonth,
                                accounts)
       IN  /\ scanArgs' = [code |-> code, employeeId |-> employee.id,
                           branchId |-> employee.branch_id, sheetMonth |-> selectedMonth]
           /\ validation' = v
           /\ IF v.ok
              THEN /\ updates < MaxUpdates
                   /\ accounts' = handleAccountScanned(accounts,
                                                       accounts[v.account].account_code,
                                                       selectedMonth, currentSheet)
                   /\ entries' = Scanned(entries, i, accounts[v.account])
                   /\ updates' = updates + 1
              ELSE UNCHANGED <<accounts, entries, updates>>
    /\ UNCHANGED <<calcArgs, calculated, dbEmployees, dbCenters, employees, centers,
                   centerRecords, selectedMonth, currentSheet, isGenerated, nextId>>

\* handleInputChange: the entries it stores; value is what parseFloat made of the
\* text, or the text itself for commission_type
InputChanged(es, i, field, value) ==
    LET row == RowOf(es, i)
        employee == EmployeeOf(es, i)
        updatedEntry == [row EXCEPT ![field] = IF field # "commission_type"
                                               THEN OrZero(value) ELSE value]
        commTypeForCalc == IF field = "commission_type" THEN value
                           ELSE row.commission_type
        override == IF commTypeForCalc # NoType THEN commTypeForCalc
                    ELSE IF employee.commission_type # NoType
                         THEN employee.commission_type ELSE "A"
    IN  handleUpdateRow(es,
            recalculateEntry(updatedEntry, employee.base_salary, commissionRates,
                             override, NoContext))

handleInputChange(i, field, value) ==
    /\ isGenerated
    /\ HasRow(i)
    /\ updates < MaxUpdates
    /\ entries' = InputChanged(entries, i, field, value)
    /\ updates' = updates + 1
    /\ UNCHANGED <<calcArgs, calculated, dbEmployees, dbCenters, employees, accounts,
                   centers, centerRecords, selectedMonth, currentSheet, isGenerated,
                   nextId, scanArgs, validation>>

\* rows.find(r => r.employee.id.toLowerCase() === term): index of the first row
FoundEmployeeRow(employeeId) ==
    LET hits == {i \in 1..Len(entries) : HasRow(i) /\ entries[i].employee_id = employeeId}
    IN  IF hits = {} THEN 0 ELSE CHOOSE i \in hits : \A j \in hits : i <= j

\* handleCenterSubmit on row i: the entries it stores
CenterSubmitted(es, i, amount) ==
    LET row == RowOf(es, i)
        employee == EmployeeOf(es, i)
        updatedEntry == [row EXCEPT !.center_count = OrZero(@) + 1,
                                    !.center_collection = OrZero(@) + amount]
    IN  handleUpdateRow(es,
            recalculateEntry(updatedEntry, employee.base_salary, commissionRates,
                             TypeFor(row, employee), NoContext))

handleCenterSubmit(employeeId, amount) ==
    /\ isGenerated
    /\ FoundEmployeeRow(employeeId) # 0
    /\ amount > 0
    /\ updates < MaxUpdates
    /\ entries' = CenterSubmitted(entries, FoundEmployeeRow(employeeId), amount)
    /\ updates' = updates + 1
    /\ UNCHANGED <<calcArgs, calculated, dbEmployees, dbCenters, employees, accounts,
                   centers, centerRecords, selectedMonth, currentSheet, isGenerated,
                   nextId, scanArgs, validation>>

\* handleEditEmployee with data = { designation }: updateEmployee, then loadAllData
handleEditEmployee(id, designation) ==
    /\ FindEmployee(employees, id) # 0
    /\ employees[FindEmployee(employees, id)].designation # designation
    /\ LET k == FindEmployee(employees, id)
           db == [dbEmployees EXCEPT ![k].designation = designation]
       IN  /\ dbEmployees' = db
           /\ Loaded(db, dbCenters)
    /\ UNCHANGED <<calcArgs, calculated, dbCenters, selectedMonth, currentSheet,
                   entries, isGenerated, nextId, updates, scanArgs, validation>>

\* ManageCenters.validateForm: the code is unique within the branch
validateForm(centerList, code, branchId, editingId) ==
    ~\E k \in 1..Len(centerList) :
        /\ centerList[k].branchId = branchId
        /\ centerList[k].centerCode = code
        /\ centerList[k].id # editingId

\* centers.find(c => c.id === id): index, 0 when there is none
FindCenter(centerList, id) ==
    LET hits == {k \in 1..Len(centerList) : centerList[k].id = id}
    IN  IF hits = {} THEN 0 ELSE CHOOSE k \in hits : \A j \in hits : k <= j

\* ManageCenters.handleSubmit while editing, then handleEditCenter
handleEditCenter(id, code, branchId, emp, type) ==
    /\ FindCenter(centers, id) # 0
    /\ validateForm(centers, code, branchId, id)
    /\ LET k == FindCenter(centers, id)
           updated == Center(id, code, branchId, emp, type)
           db == [dbCenters EXCEPT ![k] = updated]
       IN  /\ updated # centers[k]
           /\ dbCenters' = db
           /\ Loaded(dbEmployees, db)
    /\ UNCHANGED <<calcArgs, calculated, dbEmployees, selectedMonth, currentSheet,
                   entries, isGenerated, nextId, updates, scanArgs, validation>>

\* ManageCenters.handleSubmit while adding, then handleAddCenter
handleAddCenter(code, branchId, emp, type) ==
    /\ employees # <<>>
    /\ Len(dbCenters) < MaxCenters
    /\ validateForm(centers, code, branchId, 0)
    /\ LET db == Append(dbCenters, Center(Len(dbCenters) + 1, code, branchId, emp, type))
       IN  /\ dbCenters' = db
           /\ Loaded(dbEmployees, db)
    /\ UNCHANGED <<calcArgs, calculated, dbEmployees, selectedMonth, currentSheet,
                   entries, isGenerated, nextId, updates, scanArgs, validation>>

Generate == \E bs \in SUBSET BranchIds : handleGenerate(bs)
GenerateAll == handleGenerate(BranchIds)
ChangeMonth == \E m \in Months : setSelectedMonth(m)
Scan == \E i \in 1..Len(entries), code \in ScanCodes : handleCodeBlur(i, code)
ScanPay == \E i \in 1..Len(entries), code \in PayCodes : handleCodeBlur(i, code)
EditNumber ==
    \E i \in 1..Len(entries), f \in NumberFields :
        \E v \in InputValues(f) : handleInputChange(i, f, v)
EditType ==
    \E i \in 1..Len(entries) :
        \E v \in InputValues("commission_type") : handleInputChange(i, "commission_type", v)
CenterSubmit == \E e \in EmployeeIds, a \in CenterAmounts : handleCenterSubmit(e, a)
EditEmployee == \E e \in EmployeeIds, d \in Designations : handleEditEmployee(e, d)
EditCenter ==
    \E id \in 1..MaxCenters, code \in CenterCodes, b \in BranchIds, e \in EmployeeIds,
       t \in CenterTypes : handleEditCenter(id, code, b, e, t)
AddCenter ==
    \E code \in CenterCodes, b \in BranchIds, e \in EmployeeIds, t \in CenterTypes :
        handleAddCenter(code, b, e, t)

Next ==
    \/ loadAllData
    \/ Generate
    \/ ChangeMonth
    \/ Scan
    \/ EditNumber
    \/ EditType
    \/ CenterSubmit
    \/ EditEmployee
    \/ EditCenter
    \/ AddCenter

Spec == Init /\ [][Next]_vars

\* sheet generation, scans, month changes and reloads
NextScan ==
    \/ loadAllData
    \/ Generate
    \/ ChangeMonth
    \/ Scan

SpecScan == Init /\ [][NextScan]_vars

\* center master edits between aggregation passes
NextGrid ==
    \/ loadAllData
    \/ Generate
    \/ ChangeMonth
    \/ EditCenter
    \/ AddCenter

SpecGrid == Init /\ [][NextGrid]_vars

\* the salary sheet of one month: generate, row updates, designation changes
NextPay ==
    \/ loadAllData
    \/ GenerateAll
    \/ ScanPay
    \/ EditNumber
    \/ EditType
    \/ CenterSubmit
    \/ EditEmployee

SpecPay == Init /\ [][NextPay]_vars

\* the sums of a sheet: month changes, center-collection entries, center edits
NextSums ==
    \/ loadAllData
    \/ GenerateAll
    \/ ChangeMonth
    \/ CenterSubmit
    \/ EditCenter

SpecSums == Init /\ [][NextSums]_vars

----------------------------------------------------------------------------
(* validateAccount on its own: the account list is drawn from VAccountLists *)
(* and every call below is one evaluation of the function.                 *)

VCodes == {<<"A", "1">>, <<"b", "2">>}
VScanCodes == {<<"a", "1">>, <<" ", "A", "1", " ">>, <<"B", "2">>, <<"c", "1">>}
VAmounts == {599, 600}
VDates == {<<2023, 11, 20>>, <<2023, 12, 15>>, <<2024, 1, 15>>, <<2024, 3, 1>>, <<>>}
VMonths == {<<2023, 12>>, <<2024, 1>>, <<2024, 2>>, <<2024, 3>>}
VCounted == {<<FALSE, NoMonth>>, <<TRUE, <<2024, 1>>>>, <<TRUE, <<2024, 2>>>>,
             <<TRUE, NoMonth>>}

VAccounts ==
    {Account(c, 10, a, b, e, d, k[1], k[2], NoSheetId) :
        c \in VCodes, a \in VAmounts, b \in BranchIds, e \in EmployeeIds,
        d \in VDates, k \in VCounted}

\* a second account whose code differs from "A1" in case only: find() takes the first
DupAccount == Account(<<"a", "1">>, 6, 600, "b1", "e1", <<2024, 1, 15>>, FALSE, NoMonth, NoSheetId)

VAccountLists == {<<a>> : a \in VAccounts} \cup {<<a, DupAccount>> : a \in VAccounts}

InitValidate ==
    /\ accounts \in VAccountLists
    /\ dbEmployees = <<>>
    /\ dbCenters = <<>>
    /\ employees = <<>>
    /\ centers = <<>>
    /\ centerRecords = <<>>
    /\ selectedMonth = <<2024, 1>>
    /\ currentSheet = NoSheet
    /\ entries = <<>>
    /\ isGenerated = FALSE
    /\ nextId = 0
    /\ updates = 0
    /\ scanArgs = NoArgs
    /\ validation = Idle
    /\ calcArgs = NoCall
    /\ calculated = NoEntry

CallValidate(code, employeeId, branchId, sheetMonth) ==
    /\ scanArgs' = [code |-> code, employeeId |-> employeeId, branchId |-> branchId,
                    sheetMonth |-> sheetMonth]
    /\ validation' = validateAccount(code, employeeId, branchId, sheetMonth, accounts)
    /\ UNCHANGED <<calcArgs, calculated, dbEmployees, dbCenters, employees, accounts,
                   centers, centerRecords, selectedMonth, currentSheet, entries,
                   isGenerated, nextId, updates>>

NextValidate ==
    \E code \in VScanCodes, e \in EmployeeIds, b \in BranchIds, m \in VMonths :
        CallValidate(code, e, b, m)

SpecValidate == InitValidate /\ [][NextValidate]_vars

----------------------------------------------------------------------------
(* recalculateEntry on its own: the entry and the other arguments are      *)
(* drawn from the sets below, Recalculate is one call, RecalculateAgain a  *)
(* second call on the entry the first one returned.                        *)

\* the numeric fields of SalaryEntry that recalculateEntry reads
BookFields ==
    {"book_1_5", "book_3", "book_5", "book_8", "book_10", "book_12", "book_no_bonus"}
CollectionFields ==
    {"own_somity_collection", "office_somity_collection", "center_collection",
     "total_loan_collection"}
DeductionFields ==
    {"deduction_cash_advance", "misconductDeduction", "deduction_unlawful",
     "deduction_tours", "deduction_others"}
NumericInputs ==
    BookFields \cup CollectionFields \cup DeductionFields
    \cup {"input_late_hours", "input_absent_days"}

\* book counts in the order book_1_5, book_3, book_5, book_8, book_10, book_12, book_no_bonus
CalcBooks ==
    {<<0, 0, 0, 0, 0, 0, 0>>, <<1, 2, 0, 0, 0, 0, 1>>, <<0, 0, 49, 0, 0, 1, 0>>,
     <<0, 1, 0, 3, 1, 2, 4>>, <<0, 0, 48, 0, 0, 0, 1>>}
\* own, office, center and loan collection
CalcCollections == {<<0, 0, 0, 0>>, <<100, 50, 0, 40>>, <<100, 50, 300, 40>>, <<250, 150, 0, 0>>}
\* late hours and absent days
CalcHours == {<<0, 0>>, <<2, 1>>}
\* cash advance, misconduct, unlawful, tours, others
CalcDeductions == {<<0, 0, 0, 0, 0>>, <<10, 20, 30, 40, 50>>}
CalcBasic == {5200, 4000}
CalcStored == {0, 18720}
CalcTypes == {"A", NoType, "Z"}
CalcBase == {5200, 2600}
CalcOverrides == {NoType, "B", "Z"}
CalcContexts == {NoContext, Context(TRUE, 320), Context(TRUE, 100), Context(FALSE, 320)}

CalcEntry(books, coll, hours, ded, basic, stored, type) ==
    [createEmptyEntry(1, "e1", basic, type) EXCEPT
        !.book_1_5 = books[1], !.book_3 = books[2], !.book_5 = books[3],
        !.book_8 = books[4], !.book_10 = books[5], !.book_12 = books[6],
        !.book_no_bonus = books[7],
        !.own_somity_collection = coll[1], !.office_somity_collection = coll[2],
        !.center_collection = coll[3], !.total_loan_collection = coll[4],
        !.input_late_hours = hours[1], !.input_absent_days = hours[2],
        !.deduction_cash_advance = ded[1], !.misconductDeduction = ded[2],
        !.deduction_unlawful = ded[3], !.deduction_tours = ded[4],
        !.deduction_others = ded[5],
        !.manager_convenience = stored]

\* entries whose numeric fields are all numbers
RegularEntries ==
    {CalcEntry(b, c, h, d, s, m, t) :
        b \in CalcBooks, c \in CalcCollections, h \in CalcHours, d \in CalcDeductions,
        s \in CalcBasic, m \in CalcStored, t \in CalcTypes}

\* an entry one field of which is undefined or NaN
MalformedBase ==
    CalcEntry(<<1, 2, 0, 0, 0, 0, 1>>, <<100, 50, 300, 40>>, <<2, 1>>, <<10, 20, 30, 40, 50>>,
              4000, 18720, "A")
MalformedEntries ==
    {[MalformedBase EXCEPT ![f] = NaN] :
        f \in NumericInputs \cup {"basic_salary", "manager_convenience"}}

CalcEntries == RegularEntries \cup MalformedEntries

InitCalc ==
    /\ calcArgs \in [calls : {0}, entry : CalcEntries, contractualBaseSalary : CalcBase,
                     commissionTypeOverride : CalcOverrides, managerContext : CalcContexts]
    /\ calculated = NoEntry
    /\ dbEmployees = <<>>
    /\ dbCenters = <<>>
    /\ employees = <<>>
    /\ accounts = <<>>
    /\ centers = <<>>
    /\ centerRecords = <<>>
    /\ selectedMonth = <<2024, 1>>
    /\ currentSheet = NoSheet
    /\ entries = <<>>
    /\ isGenerated = FALSE
    /\ nextId = 0
    /\ updates = 0
    /\ scanArgs = NoArgs
    /\ validation = Idle

\* recalculateEntry with the arguments of calcArgs
Recalculated(entry) ==
    recalculateEntry(entry, calcArgs.contractualBaseSalary, commissionRates,
                     calcArgs.commissionTypeOverride, calcArgs.managerContext)

Recalculate ==
    /\ calcArgs.calls = 0
    /\ calculated' = Recalculated(calcArgs.entry)
    /\ calcArgs' = [calcArgs EXCEPT !.calls = 1]
    /\ UNCHANGED <<dbEmployees, dbCenters, employees, accounts, centers, centerRecords,
                   selectedMonth, currentSheet, entries, isGenerated, nextId, updates,
                   scanArgs, validation>>

RecalculateAgain ==
    /\ calcArgs.calls = 1
    /\ calculated' = Recalculated(calculated)
    /\ calcArgs' = [calcArgs EXCEPT !.calls = 2, !.entry = calculated]
    /\ UNCHANGED <<dbEmployees, dbCenters, employees, accounts, centers, centerRecords,
                   selectedMonth, currentSheet, entries, isGenerated, nextId, updates,
                   scanArgs, validation>>

NextCalc ==
    \/ Recalculate
    \/ RecalculateAgain

SpecCalc == InitCalc /\ [][NextCalc]_vars

----------------------------------------------------------------------------
(* Claims about validateAccount (SpecValidate)                             *)

\* the account the last call looked at: the first one whose lower-cased code is
\* the trimmed, lower-cased input (0 = none)
Looked ==
    LET key == ToLower(Trim(scanArgs.code))
    IN  IF \E i \in 1..Len(accounts) : ToLower(accounts[i].account_code) = key
        THEN CHOOSE i \in 1..Len(accounts) :
                /\ ToLower(accounts[i].account_code) = key
                /\ \A j \in 1..(i - 1) : ToLower(accounts[j].account_code) # key
        ELSE 0

Called == scanArgs # NoArgs

OwnerOk == accounts[Looked].opened_by_employee_id = scanArgs.employeeId
BranchOk == accounts[Looked].branch_id = scanArgs.branchId

\* C7: validateAccount rejects for the first matching reason in the order not
\* found, ownership, branch, already counted, amount below 600, time window;
\* the code is looked up case-insensitively.
C7_RejectionOrder ==
    Called =>
        IF Looked = 0 THEN validation.error = ErrNotFound
        ELSE IF ~OwnerOk THEN validation.error = ErrOwner
        ELSE IF ~BranchOk THEN validation.error = ErrBranch
        ELSE IF accounts[Looked].is_counted
             THEN validation.error \in {ErrDuplicate, ErrUsed(accounts[Looked].counted_month)}
        ELSE IF accounts[Looked].collection_amount < 600
             THEN validation.error = ErrFloor
        ELSE validation.error \in {ErrOrder, ErrExpired, NoError}

\* an account of another employee that is also counted and below the floor,
\* scanned with a code of different case, is rejected as an ownership mismatch
C7_Witness ==
    /\ Called
    /\ Looked # 0
    /\ scanArgs.code # accounts[Looked].account_code
    /\ ~OwnerOk
    /\ accounts[Looked].is_counted
    /\ accounts[Looked].collection_amount < 600
    /\ validation.error = ErrOwner

PastCounted == Called /\ Looked # 0 /\ OwnerOk /\ BranchOk /\ ~accounts[Looked].is_counted

\* C8: for an account that passes the found, ownership, branch and not-counted
\* checks, an amount below 600 is rejected as not eligible and an amount of
\* exactly 600 passes the floor check.
C8_InclusiveFloor ==
    PastCounted =>
        /\ accounts[Looked].collection_amount <= 599 => validation.error = ErrFloor
        /\ accounts[Looked].collection_amount = 600 => validation.error # ErrFloor

C8_Witness ==
    /\ PastCounted
    /\ accounts[Looked].collection_amount = 600
    /\ validation.ok

\* (sheetYear - openYear)*12 + (sheetMonth - openMonth) of a well-formed date
SpecMonthDiff(date, month) == (month[1] - date[1]) * 12 + (month[2] - date[2])

Eligible ==
    /\ PastCounted
    /\ accounts[Looked].collection_amount >= 600
    /\ Len(accounts[Looked].opening_date) = 3

\* C9: an otherwise eligible account is accepted when monthDiff is 0, 1 or 2,
\* rejected as expired when it is 3 or more and as an ordering error when it
\* is negative, also across a year boundary.
C9_Window ==
    Eligible =>
        LET d == SpecMonthDiff(accounts[Looked].opening_date, scanArgs.sheetMonth)
        IN  /\ d \in 0..2 => validation.ok /\ validation.account = Looked
            /\ d >= 3 => validation.error = ErrExpired
            /\ d < 0 => validation.error = ErrOrder

\* opened in December, sheet of February of the next year: accepted
C9_Witness ==
    /\ Eligible
    /\ accounts[Looked].opening_date[1] = 2023
    /\ accounts[Looked].opening_date[2] = 12
    /\ scanArgs.sheetMonth = <<2024, 2>>
    /\ validation.ok

----------------------------------------------------------------------------
(* Claims about the ownership classification (SpecGrid)                    *)

Range(f) == {f[k] : k \in 1..Len(f)}

\* the records gridRows classifies for row i, and the two lists it builds
RowRecords(i) == Range(currentMonthRecords(entries[i].employee_id, centerRecords, selectedMonth))
RowOwn(i) == Range(ownRecords(entries[i].employee_id, centerRecords, selectedMonth, centers))
RowOff(i) == Range(offRecords(entries[i].employee_id, centerRecords, selectedMonth, centers))

ExactCenters(r) ==
    {k \in 1..Len(centers) :
        centers[k].branchId = r.branchId /\ centers[k].centerCode = r.centerCode}
CodeCenters(r) == {k \in 1..Len(centers) : centers[k].centerCode = r.centerCode}

\* section 4.1, step 1, against one center
SpecResolve(center, employeeId) ==
    IF center.type = "OFFICE" THEN "OFFICE"
    ELSE IF center.assignedEmployeeId = employeeId THEN "OWN" ELSE "OFFICE"

Classified(i, r) == IF r \in RowOwn(i) THEN "OWN" ELSE "OFFICE"

\* C3: a record whose (branchId, centerCode) has a Center master entry is OFFICE
\* when the center's type is OFFICE and otherwise OWN exactly when the center
\* is assigned to the record's employee, in gridRows and in getCenterType.
C3_MasterEntry ==
    \A i \in 1..Len(entries) : HasRow(i) =>
        \A r \in RowRecords(i) : \A k \in ExactCenters(r) :
            /\ (r \in RowOwn(i)) # (r \in RowOff(i))
            /\ Classified(i, r) = SpecResolve(centers[k], r.employeeId)
            /\ \A isNew \in BOOLEAN, newType \in CenterTypes :
                  getCenterType(r.centerCode, r.branchId, r.employeeId, centers, isNew,
                                newType)
                  = SpecResolve(centers[k], r.employeeId)

\* a center of type OFFICE assigned to the collecting employee: the record is OFFICE
C3_Witness ==
    \E i \in 1..Len(entries) :
        /\ HasRow(i)
        /\ \E r \in RowRecords(i) : \E k \in ExactCenters(r) :
              /\ centers[k].type = "OFFICE"
              /\ centers[k].assignedEmployeeId = r.employeeId
              /\ r.amount > 0
              /\ r \in RowOff(i)
              /\ r \notin RowOwn(i)

\* C4: a record without a master entry for its (branchId, centerCode) whose
\* code belongs to exactly one center across all branches is classified
\* against that center by the salary aggregation.
C4_GloballyUnique ==
    \A i \in 1..Len(entries) : HasRow(i) =>
        \A r \in RowRecords(i) :
            (ExactCenters(r) = {} /\ Cardinality(CodeCenters(r)) = 1) =>
                \A k \in CodeCenters(r) :
                    Classified(i, r) = SpecResolve(centers[k], r.employeeId)

NoCenterAtAll(r) == CodeCenters(r) = {}

\* the rows of the COLLECTIONS sheet behind two loaded records differ in the
\* stored type only
DifferInTypeOnly(p, q) ==
    /\ p # q
    /\ DbCollections[p].typeStr # DbCollections[q].typeStr
    /\ [DbCollections[p] EXCEPT !.typeStr = ""] = [DbCollections[q] EXCEPT !.typeStr = ""]

\* C5: without any Center master entry for the code, a record is OWN exactly
\* when its centerCode is odd, and two records that differ only in their
\* stored type are classified identically.
C5_ParityOnly ==
    /\ \A i \in 1..Len(entries) : HasRow(i) =>
          \A r \in RowRecords(i) :
              NoCenterAtAll(r) => (Classified(i, r) = "OWN" <=> r.centerCode % 2 = 1)
    /\ \A p, q \in 1..Len(centerRecords) :
          (DifferInTypeOnly(p, q) /\ NoCenterAtAll(centerRecords[p])) =>
              IsOwn(centerRecords[p], centerRecords[p].employeeId, centers)
              = IsOwn(centerRecords[q], centerRecords[q].employeeId, centers)

\* two sheet rows with stored types OWN and OFFICE at an even code without a
\* center are both classified OFFICE for the row of their employee
C5_Witness ==
    \E i \in 1..Len(entries), p, q \in 1..Len(centerRecords) :
        /\ HasRow(i)
        /\ DifferInTypeOnly(p, q)
        /\ NoCenterAtAll(centerRecords[p])
        /\ centerRecords[p] \in RowOff(i)
        /\ centerRecords[q] \in RowOff(i)
        /\ centerRecords[p].centerCode % 2 = 0
        /\ DbCollections[p].typeStr = "OWN"

\* the month records of employee e collected at the (branchId, centerCode) of center c
RecordsAt(e, c, records, month) ==
    SelectSeq(currentMonthRecords(e, records, month),
              LAMBDA r : r.branchId = c.branchId /\ r.centerCode = c.centerCode)

\* own_somity_collection and office_somity_collection as gridRows sums them
RowOwnCollection(i) ==
    SumAmount(ownRecords(entries[i].employee_id, centerRecords, selectedMonth, centers))
RowOfficeCollection(i) ==
    SumAmount(offRecords(entries[i].employee_id, centerRecords, selectedMonth, centers))

\* center k keeps its place, code, branch and type and changes hands
Reassigned(k) ==
    /\ k \in 1..Len(centers')
    /\ centers'[k] = [centers[k] EXCEPT !.assignedEmployeeId = centers'[k].assignedEmployeeId]
    /\ centers'[k].assignedEmployeeId # centers[k].assignedEmployeeId
    /\ centers[k].type # "OFFICE"

\* C6: when a center is assigned to another employee between two aggregation
\* passes, the amounts the old assignee collected there move from OWN to
\* OFFICE and those of the new assignee from OFFICE to OWN on the second
\* pass, and the collection records are the same in both passes.
C6_Retroactive ==
    [][\A k \in 1..Len(centers) : Reassigned(k) =>
          /\ centerRecords' = centerRecords
          /\ \A i \in 1..Len(entries) : HasRow(i) =>
                LET e == entries[i].employee_id
                    moved == SumAmount(RecordsAt(e, centers[k], centerRecords, selectedMonth))
                    sign == IF e = centers[k].assignedEmployeeId THEN -1
                            ELSE IF e = centers'[k].assignedEmployeeId THEN 1
                            ELSE 0
                IN  /\ RowOwnCollection(i)' = RowOwnCollection(i) + sign * moved
                    /\ RowOfficeCollection(i)' = RowOfficeCollection(i) - sign * moved
                    /\ (sign # 0 /\ moved > 0) =>
                          RowOwn(i)' # RowOwn(i) /\ RowOff(i)' # RowOff(i)]_vars

\* center 1, registered to e1, now belongs to e2: in the month of the records
\* e1's 100 is OFFICE and e2's 50 is OWN, over the records as loaded
C6_Witness ==
    /\ Len(centers) >= 1
    /\ centers[1] = Center(1, 1, "b1", "e2", "OWN")
    /\ centerRecords = getCollections(DbCollections)
    /\ selectedMonth = <<2024, 1>>
    /\ \E i, j \in 1..Len(entries) :
          /\ HasRow(i) /\ entries[i].employee_id = "e1"
          /\ HasRow(j) /\ entries[j].employee_id = "e2"
          /\ gridRows(i).own_somity_collection = 0
          /\ gridRows(i).office_somity_collection = 100
          /\ gridRows(j).own_somity_collection >= 50

----------------------------------------------------------------------------
(* Claims about counted accounts (SpecScan)                                *)

\* some call of validateAccount on the account list accs accepts the account
\* whose code is code
Accepts(accs, code) ==
    \E typed \in ScanCodes, e \in EmployeeIds, b \in BranchIds, m \in Months :
        LET v == validateAccount(typed, e, b, m, accs)
        IN  v.ok /\ accs[v.account].account_code = code

\* C1: an account that is counted is not accepted by any later validateAccount
\* call, whatever generations, scans, month changes and reloads come between.
C1_CountedForGood ==
    [][\A k \in 1..Len(accounts) :
          accounts[k].is_counted => ~Accepts(accounts', accounts[k].account_code)]_vars

\* C10: once an account is counted for month M, a scan of its code by its
\* owner is rejected as a duplicate against sheet month M and as used in M
\* against every other sheet month.
C10_DuplicateOrUsed ==
    [][\A k \in 1..Len(accounts) : accounts[k].is_counted =>
          \A m \in Months :
              validateAccount(accounts[k].account_code, accounts[k].opened_by_employee_id,
                              accounts[k].branch_id, m, accounts').error
              = IF m = accounts[k].counted_month THEN ErrDuplicate
                ELSE ErrUsed(accounts[k].counted_month)]_vars

----------------------------------------------------------------------------
(* Claims about the manager incentive (SpecPay)                            *)

\* final_salary carries no manager incentive
NoIncentiveIn(e) ==
    e.final_salary = e.basic_salary * Scale + e.commission + e.bonus * Scale
                     - e.total_deductions

\* C2: no stored and no displayed entry of an employee who is not a branch
\* manager carries a nonzero manager_convenience, nor a final_salary that
\* includes one.
C2_OnlyManagers ==
    \A i \in 1..Len(entries) : (HasRow(i) /\ ~isBranchManager(RowEmployee(i))) =>
        /\ entries[i].manager_convenience = 0
        /\ NoIncentiveIn(entries[i])
        /\ gridRows(i).manager_convenience = 0
        /\ NoIncentiveIn(gridRows(i))

----------------------------------------------------------------------------
(* Claims about the totals of an entry (SpecPay)                           *)

\* the entries the program holds or shows: the stored ones and the rows of gridRows
Shown ==
    {entries[i] : i \in 1..Len(entries)}
    \cup {gridRows(i) : i \in {k \in 1..Len(entries) : HasRow(k)}}

\* C11: every entry recalculateEntry returned, stored or shown, has total_books
\* equal to the sum of its six term buckets and its no-bonus bucket.
C11_TotalBooks ==
    \A e \in Shown :
        e.total_books = e.book_1_5 + e.book_3 + e.book_5 + e.book_8 + e.book_10
                        + e.book_12 + e.book_no_bonus

\* a scan has put a book into the no-bonus bucket of a stored entry
C11_Witness ==
    \E i \in 1..Len(entries) : entries[i].book_no_bonus = 1 /\ entries[i].total_books = 1

\* C12: every entry recalculateEntry returned, stored or shown, has
\* total_collection = own_somity_collection + office_somity_collection
\* + center_collection.
C12_TotalCollection ==
    \A e \in Shown :
        e.total_collection = e.own_somity_collection + e.office_somity_collection
                             + e.center_collection

\* a center-collection entry was added to a stored entry that has somity collection
C12_Witness ==
    \E i \in 1..Len(entries) :
        /\ entries[i].center_count = 1
        /\ entries[i].center_collection = 200
        /\ entries[i].own_somity_collection > 0
        /\ entries[i].total_collection = 200 + entries[i].own_somity_collection
                                         + entries[i].office_somity_collection

----------------------------------------------------------------------------
(* Claims about recalculateEntry (SpecCalc)                                *)

\* C13: recalculateEntry is deterministic and idempotent: the entry a call
\* returned is the value of the function on its arguments, and a second call
\* on the returned entry, with the other arguments fixed, returns it unchanged.
C13_Idempotent ==
    /\ calcArgs.calls = 1 => calculated = Recalculated(calcArgs.entry)
    /\ calcArgs.calls = 2 => calculated = calcArgs.entry

\* a second call on an entry with commission, deductions and a manager's incentive
C13_Witness ==
    /\ calcArgs.calls = 2
    /\ calcArgs.managerContext.given
    /\ calculated.commission > 0
    /\ calculated.total_deductions > 0
    /\ calculated.manager_convenience > 0
    /\ calculated.final_salary # calculated.basic_salary * Scale

\* the fields of fs are all numbers in e
Numeric(e, fs) == \A f \in fs : ~IsNaN(e[f])

\* the rates that apply to the last call
CallRates ==
    RateStruct(commissionRates, EffectiveType(calcArgs.commissionTypeOverride, calcArgs.entry))

\* flat amounts of the six recognised terms times the book counts of e
ScheduleAmount(e) ==
    e.book_1_5 * bonusRates(3) + e.book_3 * bonusRates(6) + e.book_5 * bonusRates(10)
    + e.book_8 * bonusRates(16) + e.book_10 * bonusRates(20) + e.book_12 * bonusRates(24)

\* C14: commission = own collection * ownRate/100 + office collection *
\* officeRate/100 + the flat amounts of the books of the six recognised terms;
\* an entry that differs only in center_collection or only in book_no_bonus
\* gets the same commission.
C14_Commission ==
    calcArgs.calls >= 1 =>
        LET e == calcArgs.entry
        IN  /\ Numeric(e, BookFields \cup {"own_somity_collection", "office_somity_collection"})
                  => calculated.commission * 100
                       = e.own_somity_collection * CallRates.own * Scale
                         + e.office_somity_collection * CallRates.office * Scale
                         + ScheduleAmount(e) * Scale * 100
            /\ \A v \in {0, 1, 300, 999} :
                  /\ Recalculated([e EXCEPT !.center_collection = v]).commission
                        = calculated.commission
                  /\ Recalculated([e EXCEPT !.book_no_bonus = v]).commission
                        = calculated.commission

\* a call on an entry with own and office collection at nonzero rates, books of
\* recognised terms, a center collection and no-bonus books
C14_Witness ==
    /\ calcArgs.calls = 1
    /\ calcArgs.entry.own_somity_collection > 0
    /\ calcArgs.entry.office_somity_collection > 0
    /\ calcArgs.entry.center_collection > 0
    /\ calcArgs.entry.book_no_bonus > 0
    /\ calcArgs.entry.book_8 > 0
    /\ CallRates.own > 0
    /\ calculated.commission > ScheduleAmount(calcArgs.entry) * Scale

\* C15: deduction_late = input_late_hours * (contractualBaseSalary/26/8) and
\* deduction_abs = input_absent_days * (contractualBaseSalary/26); an entry that
\* differs only in basic_salary gets the same deduction_late, deduction_abs and
\* total_deductions.
C15_ContractualRates ==
    calcArgs.calls >= 1 =>
        LET e == calcArgs.entry
            base == calcArgs.contractualBaseSalary
        IN  /\ Numeric(e, {"input_late_hours", "input_absent_days"})
                  => /\ calculated.deduction_late * 26 * 8 = e.input_late_hours * base * Scale
                     /\ calculated.deduction_abs * 26 = e.input_absent_days * base * Scale
            /\ \A b \in {0, 1, 2600, 4000, 5200, 9999} :
                  LET other == Recalculated([e EXCEPT !.basic_salary = b])
                  IN  /\ other.deduction_late = calculated.deduction_late
                      /\ other.deduction_abs = calculated.deduction_abs
                      /\ other.total_deductions = calculated.total_deductions

\* a call with late hours and absent days on an entry whose basic_salary was
\* edited away from the contractual base salary
C15_Witness ==
    /\ calcArgs.calls = 1
    /\ calcArgs.entry.input_late_hours > 0
    /\ calcArgs.entry.input_absent_days > 0
    /\ calcArgs.entry.basic_salary = 4000
    /\ calcArgs.contractualBaseSalary = 5200
    /\ calculated.deduction_late = 2 * 25 * Scale
    /\ calculated.deduction_abs = 200 * Scale

\* C16: total_deductions = cash advance + late deduction + absent deduction
\* + misconduct + unlawful + tours + others, and final_salary = the entry's
\* current basic_salary + commission + bonus + manager_convenience
\* - total_deductions.
C16_FinalSalary ==
    (calcArgs.calls >= 1 /\ Numeric(calcArgs.entry, NumericInputs \cup {"basic_salary"})) =>
        LET e == calcArgs.entry
        IN  /\ calculated.total_deductions
                  = e.deduction_cash_advance * Scale + calculated.deduction_late
                    + calculated.deduction_abs + e.misconductDeduction * Scale
                    + e.deduction_unlawful * Scale + e.deduction_tours * Scale
                    + e.deduction_others * Scale
            /\ calculated.final_salary
                  = e.basic_salary * Scale + calculated.commission
                    + calculated.bonus * Scale + calculated.manager_convenience
                    - calculated.total_deductions

\* a call on an entry with every deduction, a bonus, a manager's incentive and an
\* edited basic_salary
C16_Witness ==
    /\ calcArgs.calls = 1
    /\ \A f \in DeductionFields : calcArgs.entry[f] > 0
    /\ calculated.deduction_late > 0
    /\ calculated.deduction_abs > 0
    /\ calculated.bonus = TARGET_BONUS_AMOUNT
    /\ calculated.manager_convenience > 0
    /\ calcArgs.entry.basic_salary # calcArgs.contractualBaseSalary

\* own, office, loan and center collection of the entry of the last call
CallOwnCollection ==
    calcArgs.entry.own_somity_collection + calcArgs.entry.office_somity_collection
    + calcArgs.entry.total_loan_collection + calcArgs.entry.center_collection

\* a call for a manager on an entry whose collections are numbers
ManagerCall ==
    /\ calcArgs.calls >= 1
    /\ calcArgs.managerContext.given
    /\ calcArgs.managerContext.isManager
    /\ Numeric(calcArgs.entry, CollectionFields)

\* C17: for a manager, manager_convenience = max(0, (branchTotalCollection
\* - managerOwnCollection) * 0.02); it is never negative and is 0 when the
\* manager's own collection is at least the branch total.
C17_ManagerFormula ==
    ManagerCall =>
        LET diff == calcArgs.managerContext.branchTotalCollection - CallOwnCollection
        IN  /\ calculated.manager_convenience * 100
                  = (IF diff > 0 THEN diff * 2 * Scale ELSE 0)
            /\ calculated.manager_convenience >= 0
            /\ diff <= 0 => calculated.manager_convenience = 0

\* a manager who collected more than the branch total, with a stored incentive
C17_Witness ==
    /\ ManagerCall
    /\ calcArgs.calls = 1
    /\ CallOwnCollection > calcArgs.managerContext.branchTotalCollection
    /\ calcArgs.entry.manager_convenience > 0
    /\ calculated.manager_convenience = 0

\* the computed fields that must stay finite
ComputedFields == {"commission", "total_books", "total_deductions", "final_salary"}

\* C19: a numeric field that is undefined or not a number counts as zero: the
\* returned commission, total_books, total_deductions and final_salary are
\* numbers, the ones the call returns with that field set to 0.
C19_MalformedIsZero ==
    calcArgs.calls >= 1 =>
        \A f \in NumericInputs :
            IsNaN(calcArgs.entry[f]) =>
                \A c \in ComputedFields :
                    /\ ~IsNaN(calculated[c])
                    /\ calculated[c] = Recalculated([calcArgs.entry EXCEPT ![f] = 0])[c]

----------------------------------------------------------------------------
(* Claims about the manager's incentive in the salary grid (SpecGrid)      *)

\* what staff other than the employee of row i collected in that employee's
\* branch in the selected month: collection records and manual center collections
OtherStaffCollection(i) ==
    LET manager == RowEmployee(i)
        theirs == SelectSeq(centerRecords,
                            LAMBDA r : /\ InMonth(r, selectedMonth)
                                       /\ r.branchId = manager.branch_id
                                       /\ r.employeeId # manager.id)
        others == SelectSeq(entries, LAMBDA e : e.employee_id # manager.id)
    IN  SumAmount(theirs) + SumLoan(theirs)
        + SumCenterCollection(others, employees, manager.branch_id)

\* C18: the incentive shown for a branch manager is 2% of what staff other than
\* the manager collected in the manager's branch in the month; the manager's own
\* collections, at any branch, neither add to it nor take from it.
C18_OtherStaffOnly ==
    \A i \in 1..Len(entries) :
        (HasRow(i) /\ isBranchManager(RowEmployee(i))) =>
            gridRows(i).manager_convenience * 100 = OtherStaffCollection(i) * 2 * Scale

----------------------------------------------------------------------------
(* Claims about updates of different entries (SpecPay)                     *)

\* the updates the user can make on row i in this state: the field edits the
\* model types, a center-collection entry, and the scans validateAccount accepts
\* for the row; value is the number typed, the amount, or the account's index
RowUpdates(i) ==
    UNION {{[kind |-> "input", field |-> f, value |-> v] : v \in InputValues(f) \ {NaN}} :
              f \in NumberFields}
    \cup {[kind |-> "type", field |-> "commission_type", value |-> 0]}
    \cup {[kind |-> "center", field |-> "center_collection", value |-> a] :
            a \in CenterAmounts}
    \cup {[kind |-> "scan", field |-> "account", value |-> k] :
            k \in {n \in 1..Len(accounts) :
                    validateAccount(accounts[n].account_code, RowEmployee(i).id,
                                    RowEmployee(i).branch_id, selectedMonth, accounts).ok}}

\* the stored entries after update u on row i
Updated(es, i, u) ==
    CASE u.kind = "input" -> InputChanged(es, i, u.field, u.value)
      [] u.kind = "type" ->
            InputChanged(es, i, u.field, CHOOSE t \in InputValues(u.field) : TRUE)
      [] u.kind = "center" -> CenterSubmitted(es, i, u.value)
      [] u.kind = "scan" -> Scanned(es, i, accounts[u.value])

\* C20: an update on the row of one employee changes the stored entry with that
\* id only, and two updates on the rows of different employees leave the same
\* stored entries whichever is made first.
C20_Independent ==
    (isGenerated /\ updates + 2 <= MaxUpdates) =>
        \A i, j \in {k \in 1..Len(entries) : HasRow(k)} :
            entries[i].employee_id # entries[j].employee_id =>
                \A u \in RowUpdates(i), w \in RowUpdates(j) :
                    /\ \A k \in 1..Len(entries) :
                          k # i => Updated(entries, i, u)[k] = entries[k]
                    /\ Updated(Updated(entries, i, u), j, w)
                          = Updated(Updated(entries, j, w), i, u)

----------------------------------------------------------------------------
(* Claims about the stamp a scan leaves on an account (SpecScan)           *)

\* C21: a counted account carries the month and the id of one and the same
\* salary sheet: when its salary_sheet_id is the id of the sheet being edited,
\* its counted_month is the month of that sheet.
C21_StampOfOneSheet ==
    \A k \in 1..Len(accounts) :
        (accounts[k].is_counted /\ accounts[k].salary_sheet_id = currentSheet.id) =>
            accounts[k].counted_month = currentSheet.month

----------------------------------------------------------------------------
(* Claims about the effect of a scan on the salary entry (SpecPay)         *)

\* the fields of an entry the user types in, the book counters apart
RawInputFields ==
    {"id", "employee_id", "basic_salary", "commission_type", "center_count",
     "center_collection", "input_late_hours", "input_absent_days"}
    \cup DeductionFields

\* the counter the specification names for a term (terms in half-years)
SpecBookField(term) ==
    CASE term = 3 -> "book_1_5"
      [] term = 6 -> "book_3"
      [] term = 10 -> "book_5"
      [] term = 16 -> "book_8"
      [] term = 20 -> "book_10"
      [] term = 24 -> "book_12"
      [] OTHER -> "book_no_bonus"

\* a step of handleCodeBlur that validateAccount accepted, or rejected
ScanAccepted == validation'.ok /\ accounts' # accounts /\ updates' = updates + 1
ScanRejected == <<scanArgs, validation>>' # <<scanArgs, validation>> /\ ~validation'.ok

----------------------------------------------------------------------------
(* Claims about the sums of a salary sheet (SpecSums)                      *)

\* the collection records created in the selected month, by position
MonthIndexes ==
    {k \in 1..Len(centerRecords) :
        /\ centerRecords[k].createdAt[1] = selectedMonth[1]
        /\ centerRecords[k].createdAt[2] = selectedMonth[2]}
EmployeeIndexes(e) == {k \in MonthIndexes : centerRecords[k].employeeId = e}
OwnIndexes(e) == {k \in EmployeeIndexes(e) : IsOwn(centerRecords[k], e, centers)}
OfficeIndexes(e) == {k \in EmployeeIndexes(e) : ~IsOwn(centerRecords[k], e, centers)}

RECURSIVE AmountOver(_)
AmountOver(ks) ==
    IF ks = {} THEN 0
    ELSE LET k == CHOOSE x \in ks : TRUE
         IN  centerRecords[k].amount + AmountOver(ks \ {k})

RECURSIVE LoanOver(_)
LoanOver(ks) ==
    IF ks = {} THEN 0
    ELSE LET k == CHOOSE x \in ks : TRUE
         IN  centerRecords[k].loanAmount + LoanOver(ks \ {k})

\* C23: on the row of an employee own_somity_collection plus
\* office_somity_collection is the sum of amount over the records the employee
\* created in the selected month, every such record is in exactly one of the
\* two lists, total_loan_collection is the sum of loanAmount over the same
\* records, and no record of another employee or month is in a list.
C23_Partition ==
    \A i \in 1..Len(entries) : HasRow(i) =>
        LET e == entries[i].employee_id
            row == gridRows(i)
            own == ownRecords(e, centerRecords, selectedMonth, centers)
            off == offRecords(e, centerRecords, selectedMonth, centers)
        IN  /\ row.own_somity_collection + row.office_somity_collection
                  = AmountOver(EmployeeIndexes(e))
            /\ row.own_somity_collection = AmountOver(OwnIndexes(e))
            /\ row.office_somity_collection = AmountOver(OfficeIndexes(e))
            /\ row.total_loan_collection = LoanOver(EmployeeIndexes(e))
            /\ Len(own) = Cardinality(OwnIndexes(e))
            /\ Len(off) = Cardinality(OfficeIndexes(e))
            /\ Range(own) \cup Range(off) = {centerRecords[k] : k \in EmployeeIndexes(e)}

\* a row with amounts in both lists, next to records of another employee and
\* of another month, on a sheet where a row has a loan collection
C23_Witness ==
    \E i, j \in 1..Len(entries) :
        /\ HasRow(i)
        /\ HasRow(j)
        /\ gridRows(i).own_somity_collection > 0
        /\ gridRows(i).office_somity_collection > 0
        /\ gridRows(j).total_loan_collection > 0
        /\ \E k \in MonthIndexes : centerRecords[k].employeeId # entries[i].employee_id
        /\ \E k \in 1..Len(centerRecords) :
              k \notin MonthIndexes /\ centerRecords[k].employeeId = entries[i].employee_id

\* C24: own_somity_count and office_somity_count are the numbers of distinct
\* center codes among the employee's month records classified OWN and OFFICE;
\* records at one center count once.
C24_DistinctCodes ==
    \A i \in 1..Len(entries) : HasRow(i) =>
        LET e == entries[i].employee_id
        IN  /\ gridRows(i).own_somity_count
                  = Cardinality({centerRecords[k].centerCode : k \in OwnIndexes(e)})
            /\ gridRows(i).office_somity_count
                  = Cardinality({centerRecords[k].centerCode : k \in OfficeIndexes(e)})

\* a list holds two records of one center: the count is below the number of records
C24_Witness ==
    \E i \in 1..Len(entries) :
        /\ HasRow(i)
        /\ \E k, m \in OfficeIndexes(entries[i].employee_id) :
              /\ k # m
              /\ centerRecords[k].centerCode = centerRecords[m].centerCode
              /\ centerRecords[k].branchId = centerRecords[m].branchId
        /\ gridRows(i).office_somity_count
              < Cardinality(OfficeIndexes(entries[i].employee_id))
        /\ gridRows(i).own_somity_count > 0

\* the entries of the sheet whose employee belongs to a branch, by position
BranchEntries(b) ==
    {i \in 1..Len(entries) : HasRow(i) /\ RowEmployee(i).branch_id = b}

RECURSIVE CenterCollectionOver(_)
CenterCollectionOver(is) ==
    IF is = {} THEN 0
    ELSE LET i == CHOOSE x \in is : TRUE
         IN  entries[i].center_collection + CenterCollectionOver(is \ {i})

SpecBranchTotal(b) ==
    LET ks == {k \in MonthIndexes : centerRecords[k].branchId = b}
    IN  AmountOver(ks) + LoanOver(ks) + CenterCollectionOver(BranchEntries(b))

\* C25: the branch total is the sum of amount + loanAmount over the records of
\* the branch in the selected month, by whatever employee, plus the
\* center_collection held on the entries of the branch's employees, and it is
\* the total the incentive on a manager's row is computed from.
C25_BranchTotal ==
    /\ \A b \in BranchIds :
          BranchTotal(b, centerRecords, selectedMonth, entries, employees)
              = SpecBranchTotal(b)
    /\ \A i \in 1..Len(entries) : (HasRow(i) /\ isBranchManager(RowEmployee(i))) =>
          gridRows(i).manager_convenience
              = ManagerConvenience(gridRows(i),
                                   Context(TRUE, SpecBranchTotal(RowEmployee(i).branch_id)))

\* a manager's row in a month with a record of another branch and records of
\* other months, after a center collection was entered on the sheet
C25_Witness ==
    /\ \E i \in 1..Len(entries) :
          /\ HasRow(i)
          /\ isBranchManager(RowEmployee(i))
          /\ gridRows(i).manager_convenience > 0
    /\ \E i \in 1..Len(entries) : HasRow(i) /\ entries[i].center_collection > 0
    /\ \E k \in MonthIndexes : centerRecords[k].branchId = "b2"
    /\ \E k \in MonthIndexes : centerRecords[k].branchId = "b1"

----------------------------------------------------------------------------
(* Further claims about recalculateEntry (SpecCalc)                        *)

\* the books of the entry the last call was given, when they are all numbers
CallBooks ==
    LET e == calcArgs.entry
    IN  e.book_1_5 + e.book_3 + e.book_5 + e.book_8 + e.book_10 + e.book_12
        + e.book_no_bonus

CallType == EffectiveType(calcArgs.commissionTypeOverride, calcArgs.entry)

\* C27: when the effective commission type of a call is not a key of the rate
\* table, whether or not the entry carries a commission type, recalculateEntry
\* returns an entry whose commission has no collection part (the own and the
\* office rate are zero): the commission is the flat amounts of the books.
C27_UnknownType ==
    (calcArgs.calls >= 1 /\ CallType \notin DOMAIN commissionRates) =>
        /\ calculated # NoEntry
        /\ calculated.commission_type = CallType
        /\ Numeric(calcArgs.entry, BookFields) =>
              calculated.commission = ScheduleAmount(calcArgs.entry) * Scale

\* a call with an unknown type on an entry that carries no commission type
\* and has own and office collection
C27_Witness ==
    /\ calcArgs.calls = 1
    /\ calcArgs.entry.commission_type = NoType
    /\ calcArgs.commissionTypeOverride = "Z"
    /\ calcArgs.entry.own_somity_collection > 0
    /\ calcArgs.entry.office_somity_collection > 0
    /\ calcArgs.entry.book_3 > 0
    /\ calculated.commission = ScheduleAmount(calcArgs.entry) * Scale

\* the fields of an entry that recalculateEntry is given and does not compute,
\* the commission type apart
PassThroughFields ==
    {"id", "salary_sheet_id", "employee_id", "basic_salary", "own_somity_count",
     "office_somity_count", "center_count", "total_loan_collection",
     "input_late_hours", "input_absent_days"}
    \cup BookFields \cup CollectionFields \cup DeductionFields

\* C28 as claimed: the entry recalculateEntry returns has every field the
\* caller supplied, the commission type among them, as it was in the entry
\* given; only derived fields differ.
C28_PassThrough ==
    calcArgs.calls >= 1 =>
        /\ \A f \in PassThroughFields : calculated[f] = calcArgs.entry[f]
        /\ calculated.commission_type = calcArgs.entry.commission_type

\* C28 as amended: the entry recalculateEntry returns has every field the
\* caller supplied as it was in the entry given, except commission_type, which
\* is the override when there is one, else the type of the entry, else 'A';
\* the entry given is the same after the call.
C28_PassThroughButType ==
    /\ calcArgs.calls >= 1 =>
          /\ \A f \in PassThroughFields : calculated[f] = calcArgs.entry[f]
          /\ calculated.commission_type
                = IF calcArgs.commissionTypeOverride # NoType
                  THEN calcArgs.commissionTypeOverride
                  ELSE IF calcArgs.entry.commission_type # NoType
                       THEN calcArgs.entry.commission_type
                       ELSE "A"
    /\ calcArgs.calls = 1 => calcArgs.entry \in CalcEntries

\* a call with an override on an entry of another type, with books,
\* collections, hours and deduction amounts: derived fields differ, the type
\* is the override
C28_Witness ==
    /\ calcArgs.calls = 1
    /\ calcArgs.entry.commission_type = "A"
    /\ calcArgs.commissionTypeOverride = "B"
    /\ calculated.commission_type = "B"
    /\ calcArgs.entry.book_3 > 0
    /\ calcArgs.entry.center_collection > 0
    /\ calcArgs.entry.input_late_hours > 0
    /\ calcArgs.entry.deduction_tours > 0
    /\ calcArgs.entry.basic_salary = 4000
    /\ calculated.total_deductions # calcArgs.entry.total_deductions
    /\ calculated.final_salary # calcArgs.entry.final_salary

----------------------------------------------------------------------------
(* Further claims about validateAccount (SpecValidate, SpecScan)           *)

\* C29: validateAccount accepts an account only when its opening_date is a
\* date whose month lies 0, 1 or 2 months before the sheet month; an account
\* with an empty opening_date is never accepted.
C29_DatedOnly ==
    (Called /\ validation.ok) =>
        /\ Len(accounts[Looked].opening_date) = 3
        /\ SpecMonthDiff(accounts[Looked].opening_date, scanArgs.sheetMonth) \in 0..2

\* what validateAccount answers to a scan of code on row i of the open sheet
ScanAnswer(i, code) ==
    validateAccount(code, RowEmployee(i).id, RowEmployee(i).branch_id, selectedMonth,
                    accounts)

\* C30: a scan on the open sheet is answered 'Already scanned in this sheet'
\* only for an account whose salary_sheet_id is the id of that sheet; an
\* account counted only on a sheet that was since regenerated is not.
C30_ThisSheetOnly ==
    isGenerated =>
        \A i \in 1..Len(entries), code \in ScanCodes :
            (HasRow(i) /\ ScanAnswer(i, code).error = ErrDuplicate) =>
                accounts[FindAccount(ToLower(Trim(code)), accounts)].salary_sheet_id
                    = currentSheet.id

====
